---- MODULE Spec2Model ----
(***************************************************************************)
(* Model of the gatus health-monitoring engine: the watchdog polling loops *)
(* (watchdog.Monitor / monitor), the result store behind the store.Store   *)
(* interface, the alerting state machine driven by HandleAlerting, the     *)
(* metrics publication and the cached read handler of the controller.      *)
(***************************************************************************)
EXTENDS Integers, Sequences, FiniteSets, TLC

(***************************************************************************)
(* Bounds of the model.                                                    *)
(***************************************************************************)
\* number of evaluations each polling task may perform in the bounded specs
MaxEvals == 4
\* capacity C of a service's Result history
Capacity == 2
\* evaluations per polling task while read requests are in flight
CacheEvals == 1
\* PublishMetricsForService calls per caller while their steps interleave
MaxPublish == 2
\* Results inserted per service while the read surface is exercised
StoreEvals == 3
\* the clock advances in steps of ClockStep seconds, up to MaxClock
ClockStep == 5
MaxClock == 15

\* variant: entries are kept one clock step longer
cacheTTLLonger == 10 + ClockStep

\* controller.cacheTTL, in seconds
cacheTTL == 10

(***************************************************************************)
(* Configuration: the services of cfg.Services, in configuration order,    *)
(* and the alerts configured on each of them.                              *)
(***************************************************************************)
ServiceList == <<"g/a", "g/b">>
Services == {ServiceList[i] : i \in 1..Len(ServiceList)}
\* the service list of a configuration with a single service
OneService == <<"g/a">>
AlertNames == {"a1", "a2"}
FailureThreshold == [a \in AlertNames |-> IF a = "a1" THEN 2 ELSE 1]
SuccessThreshold == [a \in AlertNames |-> IF a = "a1" THEN 1 ELSE 2]

\* the read requests in flight and the query parameters they may carry
Requests == {"r1", "r2"}
Pages == {1}
PageSizes == {1}

\* the callers of PublishMetricsForService: "h/a" has the Name and the URL
\* of "g/a" in another group
Publishers == {"g/a", "g/b", "h/a", "g/c"}

\* service.Name and service.URL of every caller: the Name and the URL of
\* "g/c" differ from those of "g/a" and format to the same gauge key
ServiceName ==
    [p \in Publishers |-> CASE p = "g/b" -> "b" [] p = "g/c" -> "a_u"
                             [] OTHER -> "a"]
ServiceURL == [p \in Publishers |-> IF p = "g/c" THEN "v" ELSE "u_v"]

Free == "free"
NoCall == [op |-> "none"]
NoClient == [insecure |-> FALSE, made |-> 0, client |-> 0]
NoGauge == [ref |-> <<>>, calls |-> 0]
NoResult == [ts |-> 0, success |-> TRUE]

VARIABLES
    cfg,              \* config.Get(): Services, DisableMonitoringLock, Metrics
    spawned,          \* number of services for which Monitor ran `go monitor`
    pc,               \* position of each service's monitor goroutine
    result,           \* the Result the goroutine holds (local `result`)
    evals,            \* number of EvaluateHealth calls started per service
    monitoringMutex,  \* Free, or the service whose goroutine holds the mutex
    store,            \* storage.Get(): key -> ServiceStatus
    alerts,           \* runtime state of every (service, alert) pair
    notifs,           \* payloads handed to the Notifier, per (service, alert)
    gauges,           \* metric.gauges: key -> number of Inc calls
    log,              \* per service: the calls its goroutine made, in order
    clock,            \* time.Now(), in seconds
    cache,            \* controller.cache: key -> entry
    hpc,              \* position of each serviceStatusesHandler invocation
    req,              \* page, pageSize, gzipped and the data of each request
    resp,             \* what each invocation wrote to its ResponseWriter
    lookups,          \* per request: when and among whom its cache.Get ran
    lastCall,         \* the latest call on the store's read surface
    secureHTTPClient,   \* client.secureHTTPClient: 0 (nil) or a client
    insecureHTTPClient, \* client.insecureHTTPClient: 0 (nil) or a client
    clients,          \* the http.Client values allocated so far
    cpc,              \* position of each goroutine inside GetHTTPClient
    got,              \* per goroutine: the flag and the client it got
    notifyErrs,       \* per (service, alert): Results whose Notifier call failed
    rwLock,           \* metric.rwLock: Free or the caller holding it
    registered,       \* per gauge key: number of promauto.NewGaugeVec calls
    mpc,              \* position of each caller in PublishMetricsForService
    gauge             \* per caller: its local `gauge`, and its calls so far

monitorVars == <<cfg, spawned, pc, result, evals, monitoringMutex>>
dataVars == <<store, alerts, notifs, gauges, log>>
cacheVars == <<clock, cache, hpc, req, resp, lookups>>
clientVars == <<secureHTTPClient, insecureHTTPClient, clients, cpc, got>>
metricVars == <<rwLock, registered, mpc, gauge>>
restVars == <<lastCall, secureHTTPClient, insecureHTTPClient, clients, cpc, got,
              notifyErrs, rwLock, registered, mpc, gauge>>
vars == <<cfg, spawned, pc, result, evals, monitoringMutex,
          store, alerts, notifs, gauges, log,
          clock, cache, hpc, req, resp, lookups,
          lastCall, secureHTTPClient, insecureHTTPClient, clients, cpc, got,
          notifyErrs, rwLock, registered, mpc, gauge>>

(***************************************************************************)
(* ResultStore (storage/store): Insert.                                    *)
(***************************************************************************)
EmptyStatus == [results |-> <<>>, events |-> <<>>,
                uptime |-> [total |-> 0, successful |-> 0]]

StatusOf(st, key) == IF key \in DOMAIN st THEN st[key] ELSE EmptyStatus

\* the history after appending r, the oldest entry evicted beyond Capacity
AppendResult(results, r) ==
    LET all == Append(results, r)
    IN IF Len(all) > Capacity THEN SubSeq(all, 2, Len(all)) ELSE all

\* an Event marks a change of outcome against the preceding Result
AppendEvent(status, r) ==
    IF Len(status.results) > 0
       /\ status.results[Len(status.results)].success # r.success
    THEN Append(status.events,
                [kind |-> IF r.success THEN "healthy" ELSE "unhealthy",
                 ts |-> r.ts])
    ELSE status.events

ProcessResult(uptime, r) ==
    [total |-> uptime.total + 1,
     successful |-> uptime.successful + (IF r.success THEN 1 ELSE 0)]

Insert(st, key, r) ==
    LET old == StatusOf(st, key)
        new == [results |-> AppendResult(old.results, r),
                events |-> AppendEvent(old, r),
                uptime |-> ProcessResult(old.uptime, r)]
    IN [k \in DOMAIN st \cup {key} |-> IF k = key THEN new ELSE st[k]]

\* variant: the Result is forwarded to the store twice
UpdateServiceStatusesTwice(st, service, r) ==
    Insert(Insert(st, service, r), service, r)

\* variant: the Result is not forwarded to the store
UpdateServiceStatusesDropped(st, service, r) == st

\* watchdog.UpdateServiceStatuses
UpdateServiceStatuses(st, service, r) == Insert(st, service, r)

(***************************************************************************)
(* Alerting: the Discord payload builder and the per-alert state machine.  *)
(***************************************************************************)
\* variant: the two branches on `resolved` are exchanged
ToCustomAlertProviderSwapped(service, alert, r, resolved) ==
    [message |-> IF resolved THEN "triggered" ELSE "resolved",
     threshold |-> IF resolved THEN FailureThreshold[alert]
                               ELSE SuccessThreshold[alert],
     colorCode |-> IF resolved THEN 15158332 ELSE 3066993,
     ts |-> r.ts]

\* variant: `resolved` is ignored, the payload always reports a trigger
ToCustomAlertProviderIgnoresResolved(service, alert, r, resolved) ==
    [message |-> "triggered",
     threshold |-> FailureThreshold[alert],
     colorCode |-> 15158332,
     ts |-> r.ts]

ToCustomAlertProvider(service, alert, r, resolved) ==
    [message |-> IF resolved THEN "resolved" ELSE "triggered",
     threshold |-> IF resolved THEN SuccessThreshold[alert]
                               ELSE FailureThreshold[alert],
     colorCode |-> IF resolved THEN 3066993 ELSE 15158332,
     ts |-> r.ts]

IdleAlert == [failures |-> 0, successes |-> 0, triggered |-> FALSE]

\* the streak counters of one alert after r
CountResult(al, r) ==
    IF r.success
    THEN [al EXCEPT !.successes = @ + 1, !.failures = 0]
    ELSE [al EXCEPT !.failures = @ + 1, !.successes = 0]

\* TRUE when r makes the alert leave Idle
Triggers(al, alert, r) ==
    /\ ~r.success
    /\ ~al.triggered
    /\ CountResult(al, r).failures >= FailureThreshold[alert]

\* TRUE when r makes the alert leave Triggered
Resolves(al, alert, r) ==
    /\ r.success
    /\ al.triggered
    /\ CountResult(al, r).successes >= SuccessThreshold[alert]

HandleAlert(al, alert, r) ==
    LET counted == CountResult(al, r)
    IN IF Triggers(al, alert, r) THEN [counted EXCEPT !.triggered = TRUE]
       ELSE IF Resolves(al, alert, r) THEN [counted EXCEPT !.triggered = FALSE]
       ELSE counted

Notify(sent, al, service, alert, r) ==
    IF Triggers(al, alert, r)
    THEN Append(sent, ToCustomAlertProvider(service, alert, r, FALSE))
    ELSE IF Resolves(al, alert, r)
    THEN Append(sent, ToCustomAlertProvider(service, alert, r, TRUE))
    ELSE sent

(***************************************************************************)
(* Metrics: metric.PublishMetricsForService.                               *)
(***************************************************************************)
\* fmt.Sprintf("%s_%s", service.Name, service.URL)
GaugeKey(service) == ServiceName[service] \o "_" \o ServiceURL[service]

PublishMetricsForService(g, metrics, service, r) ==
    IF metrics
    THEN [k \in DOMAIN g \cup {GaugeKey(service)} |->
            IF k = GaugeKey(service)
            THEN (IF k \in DOMAIN g THEN g[k] ELSE 0) + 1
            ELSE g[k]]
    ELSE g

(***************************************************************************)
(* ResultStore reads: the page window of a history, most recent first.     *)
(***************************************************************************)
Min(a, b) == IF a < b THEN a ELSE b

\* the Results of page `page` (1-based) of size pageSize, newest first
WithResultPagination(status, page, pageSize) ==
    LET n == Len(status.results)
        first == (page - 1) * pageSize + 1
        last == Min(page * pageSize, n)
    IN [results |-> IF first > n THEN <<>>
                    ELSE [i \in 1..(last - first + 1) |->
                            status.results[n - (first + i - 1) + 1]]]

GetAllServiceStatusesWithResultPagination(st, page, pageSize) ==
    [k \in DOMAIN st |-> WithResultPagination(st[k], page, pageSize)]

\* GetServiceStatusByKey: found, and the status when found
GetServiceStatusByKey(st, key) ==
    [found |-> key \in DOMAIN st, status |-> StatusOf(st, key)]

\* variant: the number of services kept is returned
DeleteAllServiceStatusesNotInKeysCountsKept(st, keys) ==
    [store |-> [k \in DOMAIN st \cap keys |-> st[k]],
     deleted |-> Cardinality(DOMAIN st \cap keys)]

\* DeleteAllServiceStatusesNotInKeys: the stored keys are visited one by
\* one; a key absent from `keys` is deleted and counted
RECURSIVE DeleteVisiting(_, _, _, _)
DeleteVisiting(st, keys, pending, deleted) ==
    IF pending = {} THEN [store |-> st, deleted |-> deleted]
    ELSE LET key == CHOOSE k \in pending : TRUE
         IN IF key \in keys
            THEN DeleteVisiting(st, keys, pending \ {key}, deleted)
            ELSE DeleteVisiting([k \in DOMAIN st \ {key} |-> st[k]], keys,
                                pending \ {key}, deleted + 1)

DeleteAllServiceStatusesNotInKeys(st, keys) ==
    DeleteVisiting(st, keys, DOMAIN st, 0)

(***************************************************************************)
(* Response cache (controller.cache) and the encodings of a response.      *)
(***************************************************************************)
\* fmt.Sprintf("service-status-%d-%d") / ("service-status-%d-%d-gzipped")
CacheKey(page, pageSize, gzipped) ==
    [page |-> page, pageSize |-> pageSize, gzipped |-> gzipped]

\* json.Marshal of the paginated statuses
Marshal(statuses) == [json |-> statuses]

\* the bytes the gzip.Writer leaves in the buffer
Gzip(data) == [gzip |-> data]

\* an entry has expired once ttl has elapsed since it was set
Expired(entry, now) == now - entry.setAt >= entry.ttl

\* cache.Get: the entry under key, unless absent or expired
CacheHas(c, key, now) == key \in DOMAIN c /\ ~Expired(c[key], now)

\* the cache after cache.Get(key): an expired entry is dropped on read
CacheAfterGet(c, key, now) ==
    IF key \in DOMAIN c /\ Expired(c[key], now)
    THEN [k \in DOMAIN c \ {key} |-> c[k]]
    ELSE c

\* cache.SetWithTTL(key, value, ttl)
SetWithTTL(c, key, value, ttl, now) ==
    [k \in DOMAIN c \cup {key} |->
        IF k = key THEN [value |-> value, setAt |-> now, ttl |-> ttl]
        ELSE c[k]]

\* the janitor's sweep: every expired entry is dropped
Sweep(c, now) ==
    [k \in {x \in DOMAIN c : ~Expired(c[x], now)} |-> c[k]]

NoData == [json |-> "none"]
NoRequest == [page |-> 0, pageSize |-> 0, gzipped |-> FALSE, data |-> NoData]
NoResponse == [status |-> 0, encoding |-> "", body |-> NoData]
NoLookup == [at |-> 0, hit |-> FALSE, with |-> {}, expired |-> FALSE,
             setAt |-> 0]

(***************************************************************************)
(* Initial state: nothing spawned, stored, triggered or published.         *)
(***************************************************************************)
InitData ==
    /\ store = <<>>
    /\ alerts = [s \in Services |-> [a \in AlertNames |-> IdleAlert]]
    /\ notifs = [s \in Services |-> [a \in AlertNames |-> <<>>]]
    /\ gauges = <<>>
    /\ log = [s \in Services |-> <<>>]

InitMonitor ==
    /\ spawned = 0
    /\ pc = [s \in Services |-> "unspawned"]
    /\ result = [s \in Services |-> NoResult]
    /\ evals = [s \in Services |-> 0]
    /\ monitoringMutex = Free

InitCache ==
    /\ clock = 0
    /\ cache = <<>>
    /\ hpc = [h \in Requests |-> "idle"]
    /\ req = [h \in Requests |-> NoRequest]
    /\ resp = [h \in Requests |-> NoResponse]
    /\ lookups = [h \in Requests |-> NoLookup]

\* no call on the read surface yet, no http.Client allocated, no gauge
InitRest ==
    /\ lastCall = NoCall
    /\ secureHTTPClient = 0
    /\ insecureHTTPClient = 0
    /\ clients = {}
    /\ cpc = [s \in Services |-> "out"]
    /\ got = [s \in Services |-> NoClient]
    /\ notifyErrs = [s \in Services |-> [a \in AlertNames |-> {}]]
    /\ rwLock = Free
    /\ registered = <<>>
    /\ mpc = [p \in Publishers |-> "out"]
    /\ gauge = [p \in Publishers |-> NoGauge]

Init ==
    /\ cfg \in [Services : {ServiceList},
                DisableMonitoringLock : BOOLEAN, Metrics : BOOLEAN]
    /\ InitMonitor
    /\ InitData
    /\ InitCache
    /\ InitRest

(***************************************************************************)
(* watchdog.Monitor: one goroutine per service, in configuration order.    *)
(***************************************************************************)
Monitor ==
    /\ spawned < Len(cfg.Services)
    /\ spawned' = spawned + 1
    /\ pc' = [pc EXCEPT ![cfg.Services[spawned + 1]] = "start"]
    /\ UNCHANGED <<cfg, result, evals, monitoringMutex>>
    /\ UNCHANGED dataVars
    /\ UNCHANGED cacheVars
    /\ UNCHANGED restVars

(***************************************************************************)
(* watchdog.monitor, one action per call of the loop body.                 *)
(***************************************************************************)
\* variant: the mutex is never waited for
CanLockAlways(disabled, mutex) == TRUE

\* the mutex may be taken by a goroutine at the top of its loop
CanLock(disabled, mutex) == disabled \/ mutex = Free

\* variant: the mutex is taken even when the lock is disabled
LockedAlways(disabled, mutex, s) == s

\* the mutex after the goroutine of s passed the top of its loop
Locked(disabled, mutex, s) == IF disabled THEN mutex ELSE s

\* variant: the mutex is kept over the sleep
UnlockedNever(disabled, mutex, s) == mutex

\* the mutex after the goroutine of s reached the bottom of its loop
Unlocked(disabled, mutex, s) == IF disabled THEN mutex ELSE Free

\* lines 33-41: take the mutex unless disabled, enter EvaluateHealth
MonitorLockCtl(s) ==
    /\ pc[s] = "start"
    /\ CanLock(cfg.DisableMonitoringLock, monitoringMutex)
    /\ monitoringMutex' = Locked(cfg.DisableMonitoringLock, monitoringMutex, s)
    /\ pc' = [pc EXCEPT ![s] = "evaluating"]
    /\ UNCHANGED <<cfg, spawned, result>>

\* line 41: EvaluateHealth returns a Result, failure encoded inside it
MonitorEvaluateCtl(s, ok) ==
    /\ pc[s] = "evaluating"
    /\ result' = [result EXCEPT ![s] = [ts |-> evals[s], success |-> ok]]
    /\ pc' = [pc EXCEPT ![s] = "publish"]
    /\ UNCHANGED <<cfg, spawned, monitoringMutex>>

\* variant: the call of UpdateServiceStatuses is missing
MonitorPublishCtlSkipsUpdate(s) ==
    /\ pc[s] = "publish"
    /\ pc' = [pc EXCEPT ![s] = "alert"]
    /\ UNCHANGED <<cfg, spawned, result, monitoringMutex>>

\* line 42
MonitorPublishCtl(s) ==
    /\ pc[s] = "publish"
    /\ pc' = [pc EXCEPT ![s] = "update"]
    /\ UNCHANGED <<cfg, spawned, result, monitoringMutex>>

\* line 43
MonitorUpdateCtl(s) ==
    /\ pc[s] = "update"
    /\ pc' = [pc EXCEPT ![s] = "alert"]
    /\ UNCHANGED <<cfg, spawned, result, monitoringMutex>>

\* variant: the loop is left, mutex held, when the Result is a failure
MonitorAlertCtlAborts(s) ==
    /\ pc[s] = "alert"
    /\ pc' = [pc EXCEPT ![s] = IF result[s].success THEN "unlock"
                                                    ELSE "terminated"]
    /\ UNCHANGED <<cfg, spawned, result, monitoringMutex>>

\* line 52
MonitorAlertCtl(s) ==
    /\ pc[s] = "alert"
    /\ pc' = [pc EXCEPT ![s] = "unlock"]
    /\ UNCHANGED <<cfg, spawned, result, monitoringMutex>>

\* lines 56-58
MonitorUnlockCtl(s) ==
    /\ pc[s] = "unlock"
    /\ monitoringMutex' = Unlocked(cfg.DisableMonitoringLock, monitoringMutex, s)
    /\ pc' = [pc EXCEPT ![s] = "sleep"]
    /\ UNCHANGED <<cfg, spawned, result>>

\* line 59
MonitorSleepCtl(s) ==
    /\ pc[s] = "sleep"
    /\ pc' = [pc EXCEPT ![s] = "start"]
    /\ UNCHANGED <<cfg, spawned, result, monitoringMutex>>

\* the goroutine of s made the call `what` with the Result it holds
Record(s, what) ==
    log' = [log EXCEPT ![s] = Append(@, [call |-> what, result |-> result'[s]])]

MonitorLockUpTo(s, n) ==
    /\ evals[s] < n
    /\ MonitorLockCtl(s)
    /\ evals' = [evals EXCEPT ![s] = @ + 1]
    /\ UNCHANGED dataVars
    /\ UNCHANGED cacheVars
    /\ UNCHANGED restVars

MonitorLock(s) == MonitorLockUpTo(s, MaxEvals)

MonitorEvaluate(s) ==
    /\ \E ok \in BOOLEAN : MonitorEvaluateCtl(s, ok)
    /\ Record(s, "evaluate")
    /\ UNCHANGED <<evals, store, alerts, notifs, gauges>>
    /\ UNCHANGED cacheVars
    /\ UNCHANGED restVars

MonitorPublish(s) ==
    /\ MonitorPublishCtl(s)
    /\ gauges' = PublishMetricsForService(gauges, cfg.Metrics, s, result[s])
    /\ Record(s, "publish")
    /\ UNCHANGED <<evals, store, alerts, notifs>>
    /\ UNCHANGED cacheVars
    /\ UNCHANGED restVars

MonitorUpdate(s) ==
    /\ MonitorUpdateCtl(s)
    /\ store' = UpdateServiceStatuses(store, s, result[s])
    /\ Record(s, "insert")
    /\ UNCHANGED <<evals, alerts, notifs, gauges>>
    /\ UNCHANGED cacheVars
    /\ UNCHANGED restVars

HandleAlerting(s) ==
    /\ alerts' = [alerts EXCEPT ![s] =
                    [a \in AlertNames |-> HandleAlert(alerts[s][a], a, result[s])]]
    /\ notifs' = [notifs EXCEPT ![s] =
                    [a \in AlertNames |->
                        Notify(notifs[s][a], alerts[s][a], s, a, result[s])]]

MonitorAlert(s) ==
    /\ MonitorAlertCtl(s)
    /\ HandleAlerting(s)
    /\ Record(s, "handle")
    /\ UNCHANGED <<evals, store, gauges>>
    /\ UNCHANGED cacheVars
    /\ UNCHANGED restVars

MonitorUnlock(s) ==
    /\ MonitorUnlockCtl(s)
    /\ UNCHANGED <<evals, store, alerts, notifs, gauges, log>>
    /\ UNCHANGED cacheVars
    /\ UNCHANGED restVars

MonitorSleep(s) ==
    /\ MonitorSleepCtl(s)
    /\ UNCHANGED <<evals, store, alerts, notifs, gauges, log>>
    /\ UNCHANGED cacheVars
    /\ UNCHANGED restVars

(***************************************************************************)
(* controller.serviceStatusesHandler, one action per shared-state access.  *)
(***************************************************************************)
InFlight(h) == hpc[h] \in {"miss", "marshalled", "plainSet"}

KeyOf(h) == CacheKey(req[h].page, req[h].pageSize, req[h].gzipped)

\* lines 104-113, and lines 135-139 on a hit
HandlerGet(h) ==
    /\ hpc[h] = "idle"
    /\ \E page \in Pages, pageSize \in PageSizes, gzipped \in BOOLEAN :
        LET key == CacheKey(page, pageSize, gzipped)
            exists == CacheHas(cache, key, clock)
        IN /\ cache' = CacheAfterGet(cache, key, clock)
           /\ req' = [req EXCEPT ![h] =
                        [page |-> page, pageSize |-> pageSize,
                         gzipped |-> gzipped,
                         data |-> IF exists THEN cache[key].value ELSE NoData]]
           /\ lookups' = [lookups EXCEPT ![h] =
                        [at |-> clock, hit |-> exists,
                         with |-> {o \in Requests \ {h} : InFlight(o)},
                         expired |-> key \in DOMAIN cache /\ ~exists,
                         setAt |-> IF exists THEN cache[key].setAt ELSE 0]]
           /\ hpc' = [hpc EXCEPT ![h] = IF exists THEN "done" ELSE "miss"]
           /\ resp' = [resp EXCEPT ![h] =
                        IF exists
                        THEN [status |-> 200,
                              encoding |-> IF gzipped THEN "gzip" ELSE "",
                              body |-> cache[key].value]
                        ELSE [@ EXCEPT !.encoding =
                                         IF gzipped THEN "gzip" ELSE ""]]
    /\ UNCHANGED clock
    /\ UNCHANGED monitorVars
    /\ UNCHANGED restVars
    /\ UNCHANGED dataVars

\* variant: the error body is cached when json.Marshal fails
HandlerMarshalCachesError(h) ==
    /\ hpc[h] = "miss"
    /\ \E ok \in BOOLEAN :
        IF ok
        THEN /\ req' = [req EXCEPT ![h].data =
                    Marshal(GetAllServiceStatusesWithResultPagination(
                                store, req[h].page, req[h].pageSize))]
             /\ hpc' = [hpc EXCEPT ![h] = "marshalled"]
             /\ UNCHANGED <<resp, cache>>
        ELSE /\ resp' = [resp EXCEPT ![h] =
                    [@ EXCEPT !.status = 500, !.body = [json |-> "error"]]]
             /\ hpc' = [hpc EXCEPT ![h] = "done"]
             /\ cache' = SetWithTTL(cache, KeyOf(h), [json |-> "error"],
                                    cacheTTL, clock)
             /\ UNCHANGED req
    /\ UNCHANGED <<clock, lookups>>
    /\ UNCHANGED monitorVars
    /\ UNCHANGED restVars
    /\ UNCHANGED dataVars

\* lines 117-125: the store is read and marshalled; json.Marshal may fail
HandlerMarshal(h) ==
    /\ hpc[h] = "miss"
    /\ \E ok \in BOOLEAN :
        IF ok
        THEN /\ req' = [req EXCEPT ![h].data =
                    Marshal(GetAllServiceStatusesWithResultPagination(
                                store, req[h].page, req[h].pageSize))]
             /\ hpc' = [hpc EXCEPT ![h] = "marshalled"]
             /\ UNCHANGED resp
        ELSE /\ resp' = [resp EXCEPT ![h] =
                    [@ EXCEPT !.status = 500, !.body = [json |-> "error"]]]
             /\ hpc' = [hpc EXCEPT ![h] = "done"]
             /\ UNCHANGED req
    /\ UNCHANGED <<clock, cache, lookups>>
    /\ UNCHANGED monitorVars
    /\ UNCHANGED restVars
    /\ UNCHANGED dataVars

\* lines 126-129
HandlerSetPlain(h) ==
    /\ hpc[h] = "marshalled"
    /\ cache' = SetWithTTL(cache,
                    CacheKey(req[h].page, req[h].pageSize, FALSE),
                    req[h].data, cacheTTL, clock)
    /\ hpc' = [hpc EXCEPT ![h] = "plainSet"]
    /\ UNCHANGED <<clock, req, resp, lookups>>
    /\ UNCHANGED monitorVars
    /\ UNCHANGED restVars
    /\ UNCHANGED dataVars

\* lines 130-139
HandlerSetGzipped(h) ==
    /\ hpc[h] = "plainSet"
    /\ cache' = SetWithTTL(cache,
                    CacheKey(req[h].page, req[h].pageSize, TRUE),
                    Gzip(req[h].data), cacheTTL, clock)
    /\ resp' = [resp EXCEPT ![h] =
                [@ EXCEPT !.status = 200,
                          !.body = IF req[h].gzipped THEN Gzip(req[h].data)
                                                     ELSE req[h].data]]
    /\ hpc' = [hpc EXCEPT ![h] = "done"]
    /\ UNCHANGED <<clock, req, lookups>>
    /\ UNCHANGED monitorVars
    /\ UNCHANGED restVars
    /\ UNCHANGED dataVars

\* time passes
Tick ==
    /\ clock + ClockStep <= MaxClock
    /\ clock' = clock + ClockStep
    /\ UNCHANGED <<cache, hpc, req, resp, lookups>>
    /\ UNCHANGED monitorVars
    /\ UNCHANGED restVars
    /\ UNCHANGED dataVars

\* controller.init: cache.StartJanitor, the periodic sweep of the cache
Janitor ==
    /\ cache' = Sweep(cache, clock)
    /\ cache' # cache
    /\ UNCHANGED <<clock, hpc, req, resp, lookups>>
    /\ UNCHANGED monitorVars
    /\ UNCHANGED restVars
    /\ UNCHANGED dataVars

(***************************************************************************)
(* The store's read surface: Insert as called by UpdateServiceStatuses,    *)
(* reconciliation, and controller.serviceStatusHandler.                    *)
(***************************************************************************)
StoreFrame ==
    /\ UNCHANGED monitorVars
    /\ UNCHANGED <<alerts, notifs, gauges, log>>
    /\ UNCHANGED cacheVars
    /\ UNCHANGED <<clientVars, notifyErrs, metricVars>>

\* UpdateServiceStatuses(service, result) with the next Result of the service
StoreInsert(s, ok) ==
    /\ StatusOf(store, s).uptime.total < StoreEvals
    /\ store' = UpdateServiceStatuses(store, s,
                    [ts |-> StatusOf(store, s).uptime.total + 1, success |-> ok])
    /\ lastCall' = [op |-> "insert", key |-> s]
    /\ StoreFrame

\* DeleteAllServiceStatusesNotInKeys(keys)
StoreDelete(keys) ==
    LET done == DeleteAllServiceStatusesNotInKeys(store, keys)
    IN /\ store' = done.store
       /\ lastCall' = [op |-> "delete", keys |-> keys, before |-> store,
                       ret |-> done.deleted]
       /\ StoreFrame

\* variant: a page without Results is answered as "not found"
ServiceStatusHandlerRejectsEmptyPage(key, page, pageSize) ==
    LET looked == GetServiceStatusByKey(store, key)
        paged == WithResultPagination(looked.status, page, pageSize)
    IN /\ lastCall' = [op |-> "read", key |-> key, page |-> page,
                       pageSize |-> pageSize, before |-> store,
                       marshalled |-> TRUE,
                       status |-> IF looked.found /\ paged.results # <<>>
                                  THEN 200 ELSE 404,
                       body |-> [serviceStatus |-> paged,
                                 events |-> looked.status.events,
                                 uptime |-> looked.status.uptime]]
       /\ UNCHANGED store
       /\ StoreFrame

\* controller.serviceStatusHandler for GET /api/v1/statuses/{key}
ServiceStatusHandler(key, page, pageSize) ==
    LET looked == GetServiceStatusByKey(store, key)
        paged == WithResultPagination(looked.status, page, pageSize)
    IN /\ \E ok \in BOOLEAN :
            lastCall' =
                IF ~looked.found
                THEN [op |-> "read", key |-> key, page |-> page,
                      pageSize |-> pageSize, before |-> store,
                      marshalled |-> FALSE, status |-> 404,
                      body |-> "not found"]
                ELSE [op |-> "read", key |-> key, page |-> page,
                      pageSize |-> pageSize, before |-> store,
                      marshalled |-> ok,
                      status |-> IF ok THEN 200 ELSE 500,
                      body |-> IF ok
                               THEN [serviceStatus |-> paged,
                                     events |-> looked.status.events,
                                     uptime |-> looked.status.uptime]
                               ELSE "unable to marshal object to JSON"]
       /\ UNCHANGED store
       /\ StoreFrame

Next ==
    \/ Monitor
    \/ \E s \in Services : MonitorLock(s)
    \/ \E s \in Services : MonitorEvaluate(s)
    \/ \E s \in Services : MonitorPublish(s)
    \/ \E s \in Services : MonitorUpdate(s)
    \/ \E s \in Services : MonitorAlert(s)
    \/ \E s \in Services : MonitorUnlock(s)
    \/ \E s \in Services : MonitorSleep(s)

Spec == Init /\ [][Next]_vars

(***************************************************************************)
(* The read path: requests, the clock and the janitor, with the polling    *)
(* tasks inserting into the store meanwhile (serialization enabled).       *)
(***************************************************************************)
InitRead ==
    /\ cfg = [Services |-> OneService,
              DisableMonitoringLock |-> FALSE, Metrics |-> FALSE]
    /\ InitMonitor
    /\ InitData
    /\ InitCache
    /\ InitRest

NextRead ==
    \/ Monitor
    \/ \E s \in Services : MonitorLockUpTo(s, CacheEvals)
    \/ \E s \in Services : MonitorEvaluate(s)
    \/ \E s \in Services : MonitorPublish(s)
    \/ \E s \in Services : MonitorUpdate(s)
    \/ \E s \in Services : MonitorAlert(s)
    \/ \E s \in Services : MonitorUnlock(s)
    \/ \E s \in Services : MonitorSleep(s)
    \/ \E h \in Requests : HandlerGet(h)
    \/ \E h \in Requests : HandlerMarshal(h)
    \/ \E h \in Requests : HandlerSetPlain(h)
    \/ \E h \in Requests : HandlerSetGzipped(h)
    \/ Tick
    \/ Janitor

SpecRead == InitRead /\ [][NextRead]_vars

(***************************************************************************)
(* The store under inserts, reconciliation and single-service reads.       *)
(***************************************************************************)
\* the keys a reconciliation may name: the services and one unknown key
KnownKeys == Services \cup {"g/zz"}
ReadPages == {1, 2, 3, 1000}
ReadPageSizes == {1, 2, 10}

NextStore ==
    \/ \E s \in Services, ok \in BOOLEAN : StoreInsert(s, ok)
    \/ \E keys \in SUBSET KnownKeys : StoreDelete(keys)
    \/ \E key \in KnownKeys, page \in ReadPages, pageSize \in ReadPageSizes :
            ServiceStatusHandler(key, page, pageSize)

SpecStore == InitRead /\ [][NextStore]_vars

(***************************************************************************)
(* The polling loops without a bound on the number of iterations.  The     *)
(* loop never branches on what Publish, Insert or Handle did, and the      *)
(* calls are taken to return, so only the position of each goroutine, the  *)
(* Result it holds and the mutex are carried.                              *)
(***************************************************************************)
LiveFrame ==
    /\ UNCHANGED evals
    /\ UNCHANGED dataVars
    /\ UNCHANGED cacheVars
    /\ UNCHANGED restVars

LiveLock(s) == MonitorLockCtl(s) /\ LiveFrame
LiveEvaluate(s) == (\E ok \in BOOLEAN : MonitorEvaluateCtl(s, ok)) /\ LiveFrame
LivePublish(s) == MonitorPublishCtl(s) /\ LiveFrame
LiveUpdate(s) == MonitorUpdateCtl(s) /\ LiveFrame
LiveAlert(s) == MonitorAlertCtl(s) /\ LiveFrame
LiveUnlock(s) == MonitorUnlockCtl(s) /\ LiveFrame
LiveSleep(s) == MonitorSleepCtl(s) /\ LiveFrame

NextLive ==
    \/ Monitor
    \/ \E s \in Services : LiveLock(s)
    \/ \E s \in Services : LiveEvaluate(s)
    \/ \E s \in Services : LivePublish(s)
    \/ \E s \in Services : LiveUpdate(s)
    \/ \E s \in Services : LiveAlert(s)
    \/ \E s \in Services : LiveUnlock(s)
    \/ \E s \in Services : LiveSleep(s)

\* every call returns, Monitor keeps spawning, the mutex is acquired fairly
Fairness ==
    /\ WF_vars(Monitor)
    /\ \A s \in Services : SF_vars(LiveLock(s))
    /\ \A s \in Services : WF_vars(LiveEvaluate(s))
    /\ \A s \in Services : WF_vars(LivePublish(s))
    /\ \A s \in Services : WF_vars(LiveUpdate(s))
    /\ \A s \in Services : WF_vars(LiveAlert(s))
    /\ \A s \in Services : WF_vars(LiveUnlock(s))
    /\ \A s \in Services : WF_vars(LiveSleep(s))

SpecLive == Init /\ [][NextLive]_vars /\ Fairness

(***************************************************************************)
(* client.GetHTTPClient, called by a polling goroutine while it evaluates  *)
(* its service.  Nothing synchronises the two package variables, so the    *)
(* test for nil, the assignment and the final read are separate steps, and *)
(* the final read yields the variable's value or the goroutine's own write.*)
(***************************************************************************)
SharedClient(insecure) ==
    IF insecure THEN insecureHTTPClient ELSE secureHTTPClient

ClientFrame ==
    /\ UNCHANGED monitorVars
    /\ UNCHANGED dataVars
    /\ UNCHANGED cacheVars
    /\ UNCHANGED <<lastCall, notifyErrs, metricVars>>

\* lines 38-39 and 54: the test of the package variable against nil
ClientCheck(s, insecure) ==
    /\ pc[s] = "evaluating"
    /\ cpc[s] = "out"
    /\ cpc' = [cpc EXCEPT ![s] =
                IF SharedClient(insecure) = 0 THEN "create" ELSE "return"]
    /\ got' = [got EXCEPT ![s] = [insecure |-> insecure, made |-> 0,
                                  client |-> 0]]
    /\ UNCHANGED <<secureHTTPClient, insecureHTTPClient, clients>>
    /\ ClientFrame

\* lines 40-50 and 55-62: a new http.Client is stored in the variable
ClientCreate(s) ==
    /\ cpc[s] = "create"
    /\ LET new == Cardinality(clients) + 1
       IN /\ clients' = clients \cup {[insecure |-> got[s].insecure, id |-> new]}
          /\ got' = [got EXCEPT ![s].made = new]
          /\ IF got[s].insecure
             THEN insecureHTTPClient' = new /\ UNCHANGED secureHTTPClient
             ELSE secureHTTPClient' = new /\ UNCHANGED insecureHTTPClient
    /\ cpc' = [cpc EXCEPT ![s] = "return"]
    /\ ClientFrame

\* lines 52 and 64: the variable is read again and returned
ClientReturn(s) ==
    /\ cpc[s] = "return"
    /\ \E c \in {SharedClient(got[s].insecure), got[s].made} \ {0} :
            got' = [got EXCEPT ![s].client = c]
    /\ cpc' = [cpc EXCEPT ![s] = "returned"]
    /\ UNCHANGED <<secureHTTPClient, insecureHTTPClient, clients>>
    /\ ClientFrame

\* EvaluateHealth returns once it has its client
ClientEvaluate(s) ==
    /\ cpc[s] = "returned"
    /\ \E ok \in BOOLEAN : MonitorEvaluateCtl(s, ok)
    /\ cpc' = [cpc EXCEPT ![s] = "out"]
    /\ UNCHANGED <<secureHTTPClient, insecureHTTPClient, clients, got>>
    /\ UNCHANGED evals
    /\ UNCHANGED dataVars
    /\ UNCHANGED cacheVars
    /\ UNCHANGED <<lastCall, notifyErrs, metricVars>>

NextClient ==
    \/ Monitor
    \/ \E s \in Services : LiveLock(s)
    \/ \E s \in Services, insecure \in BOOLEAN : ClientCheck(s, insecure)
    \/ \E s \in Services : ClientCreate(s)
    \/ \E s \in Services : ClientReturn(s)
    \/ \E s \in Services : ClientEvaluate(s)
    \/ \E s \in Services : LivePublish(s)
    \/ \E s \in Services : LiveUpdate(s)
    \/ \E s \in Services : LiveAlert(s)
    \/ \E s \in Services : LiveUnlock(s)
    \/ \E s \in Services : LiveSleep(s)

SpecClient == Init /\ [][NextClient]_vars

(***************************************************************************)
(* The polling loop of one service with a Notifier that may fail: the      *)
(* error is logged by HandleAlerting and nothing else depends on it.       *)
(***************************************************************************)
\* the alerts of s for which the Result in hand makes HandleAlerting notify
Notifying(s) ==
    {a \in AlertNames : \/ Triggers(alerts[s][a], a, result[s])
                        \/ Resolves(alerts[s][a], a, result[s])}

\* the Notifier calls of this Handle that returned an error are remembered
NotifierReturns(s, failing) ==
    notifyErrs' = [notifyErrs EXCEPT ![s] =
        [a \in AlertNames |-> IF a \in failing
                              THEN notifyErrs[s][a] \cup {result[s].ts}
                              ELSE notifyErrs[s][a]]]

AlertFrame ==
    /\ UNCHANGED <<evals, store, gauges>>
    /\ UNCHANGED cacheVars
    /\ UNCHANGED <<lastCall, clientVars, metricVars>>

\* variant: the loop is left, mutex held, when a Notifier call fails
MonitorAlertNotifyAborts(s) ==
    /\ pc[s] = "alert"
    /\ UNCHANGED <<cfg, spawned, result, monitoringMutex>>
    /\ HandleAlerting(s)
    /\ Record(s, "handle")
    /\ \E failing \in SUBSET Notifying(s) :
        /\ NotifierReturns(s, failing)
        /\ pc' = [pc EXCEPT ![s] = IF failing = {} THEN "unlock"
                                                   ELSE "terminated"]
    /\ AlertFrame

\* line 52, with the outcome of every Notifier call of this Handle
MonitorAlertNotify(s) ==
    /\ MonitorAlertCtl(s)
    /\ HandleAlerting(s)
    /\ Record(s, "handle")
    /\ \E failing \in SUBSET Notifying(s) : NotifierReturns(s, failing)
    /\ AlertFrame

InitAlert ==
    /\ cfg \in [Services : {OneService},
                DisableMonitoringLock : BOOLEAN, Metrics : {FALSE}]
    /\ InitMonitor
    /\ InitData
    /\ InitCache
    /\ InitRest

NextAlert ==
    \/ Monitor
    \/ \E s \in Services : MonitorLock(s)
    \/ \E s \in Services : MonitorEvaluate(s)
    \/ \E s \in Services : MonitorPublish(s)
    \/ \E s \in Services : MonitorUpdate(s)
    \/ \E s \in Services : MonitorAlertNotify(s)
    \/ \E s \in Services : MonitorUnlock(s)
    \/ \E s \in Services : MonitorSleep(s)

SpecAlert == InitAlert /\ [][NextAlert]_vars

(***************************************************************************)
(* metric.PublishMetricsForService step by step, for concurrent callers.   *)
(* registered[k] lists the GaugeVecs created under key k, the last one     *)
(* being the pointer stored in the map; gauge[p] is the local `gauge`.     *)
(***************************************************************************)
MetricsFrame ==
    /\ UNCHANGED monitorVars
    /\ UNCHANGED <<store, alerts, notifs, log>>
    /\ UNCHANGED cacheVars
    /\ UNCHANGED <<lastCall, clientVars, notifyErrs>>

\* promauto.NewGaugeVec with the ConstLabels of the caller
NewGaugeVec(p) ==
    [service |-> ServiceName[p], url |-> ServiceURL[p], incs |-> 0]

\* lines 194-195: the test of config.Get().Metrics, then rwLock.Lock()
PublishEnter(p) ==
    /\ mpc[p] = "out"
    /\ gauge[p].calls < MaxPublish
    /\ IF cfg.Metrics
       THEN /\ rwLock = Free
            /\ rwLock' = p
            /\ mpc' = [mpc EXCEPT ![p] = "locked"]
            /\ UNCHANGED gauge
       ELSE /\ gauge' = [gauge EXCEPT ![p].calls = @ + 1]
            /\ UNCHANGED <<rwLock, mpc>>
    /\ UNCHANGED <<registered, gauges>>
    /\ MetricsFrame

\* variant: a GaugeVec is created whether or not the key has one
PublishLookupAlwaysCreates(p) ==
    LET k == GaugeKey(p)
        had == IF k \in DOMAIN registered THEN registered[k] ELSE <<>>
    IN /\ mpc[p] = "locked"
       /\ registered' = [x \in DOMAIN registered \cup {k} |->
              IF x = k THEN Append(had, NewGaugeVec(p)) ELSE registered[x]]
       /\ gauge' = [gauge EXCEPT ![p].ref = <<k, Len(had) + 1>>]
       /\ mpc' = [mpc EXCEPT ![p] = "unlock"]
       /\ UNCHANGED <<rwLock, gauges>>
       /\ MetricsFrame

\* lines 196-204: the lookup under the key and, if absent, the creation
PublishLookup(p) ==
    LET k == GaugeKey(p)
    IN /\ mpc[p] = "locked"
       /\ IF k \in DOMAIN registered
          THEN /\ gauge' = [gauge EXCEPT ![p].ref = <<k, Len(registered[k])>>]
               /\ UNCHANGED registered
          ELSE /\ registered' = [x \in DOMAIN registered \cup {k} |->
                      IF x = k THEN <<NewGaugeVec(p)>> ELSE registered[x]]
               /\ gauge' = [gauge EXCEPT ![p].ref = <<k, 1>>]
       /\ mpc' = [mpc EXCEPT ![p] = "unlock"]
       /\ UNCHANGED <<rwLock, gauges>>
       /\ MetricsFrame

\* line 205
PublishUnlock(p) ==
    /\ mpc[p] = "unlock"
    /\ rwLock' = Free
    /\ mpc' = [mpc EXCEPT ![p] = "inc"]
    /\ UNCHANGED <<registered, gauge, gauges>>
    /\ MetricsFrame

\* line 206: Inc on the local pointer, outside the lock
PublishInc(p) ==
    LET k == gauge[p].ref[1]
        i == gauge[p].ref[2]
    IN /\ mpc[p] = "inc"
       /\ registered' = [registered EXCEPT ![k][i].incs = @ + 1]
       /\ gauges' = PublishMetricsForService(gauges, cfg.Metrics, p, NoResult)
       /\ gauge' = [gauge EXCEPT ![p].calls = @ + 1]
       /\ mpc' = [mpc EXCEPT ![p] = "out"]
       /\ UNCHANGED rwLock
       /\ MetricsFrame

InitMetrics ==
    /\ cfg \in [Services : {ServiceList},
                DisableMonitoringLock : {FALSE}, Metrics : BOOLEAN]
    /\ InitMonitor
    /\ InitData
    /\ InitCache
    /\ InitRest

NextMetrics ==
    \/ \E p \in Publishers : PublishEnter(p)
    \/ \E p \in Publishers : PublishLookup(p)
    \/ \E p \in Publishers : PublishUnlock(p)
    \/ \E p \in Publishers : PublishInc(p)

SpecMetrics == InitMetrics /\ [][NextMetrics]_vars

(***************************************************************************)
(* Helpers of the properties.                                              *)
(***************************************************************************)
Max(a, b) == IF a > b THEN a ELSE b

\* the Results the goroutine of s passed to the call `what`, in order
RECURSIVE ResultsOf(_, _)
ResultsOf(entries, what) ==
    IF entries = <<>> THEN <<>>
    ELSE LET rest == ResultsOf(SubSeq(entries, 1, Len(entries) - 1), what)
             e == entries[Len(entries)]
         IN IF e.call = what THEN Append(rest, e.result) ELSE rest

Inserted(s) == ResultsOf(log[s], "insert")
Handled(s) == ResultsOf(log[s], "handle")
HandledNext(s) == ResultsOf(log'[s], "handle")

\* this step is the return of a Handle call of the goroutine of s
HandlesNow(s) ==
    /\ Len(log'[s]) = Len(log[s]) + 1
    /\ log'[s][Len(log'[s])].call = "handle"

\* length of the run of Results with outcome `ok` that ends the sequence
RECURSIVE Streak(_, _)
Streak(rs, ok) ==
    IF rs = <<>> \/ rs[Len(rs)].success # ok THEN 0
    ELSE 1 + Streak(SubSeq(rs, 1, Len(rs) - 1), ok)

\* the payloads of kind `message` handed to the Notifier in this step
NewlySent(s, a, message) ==
    SelectSeq(SubSeq(notifs'[s][a], Len(notifs[s][a]) + 1, Len(notifs'[s][a])),
              LAMBDA n : n.message = message)

IsPrefix(p, q) == Len(p) <= Len(q) /\ SubSeq(q, 1, Len(p)) = p

CallOrder == <<"evaluate", "publish", "insert", "handle">>

(***************************************************************************)
(* C1: with cross-service serialization enabled, at most one goroutine is  *)
(* between the start and the return of its EvaluateHealth call.            *)
(***************************************************************************)
C1_AtMostOneEvaluating ==
    ~cfg.DisableMonitoringLock =>
        Cardinality({s \in Services : pc[s] = "evaluating"}) <= 1

\* one task evaluates under the lock while another waits at the top of its loop
C1_Witness ==
    /\ ~cfg.DisableMonitoringLock
    /\ \E s, t \in Services :
        /\ s # t
        /\ pc[s] = "evaluating" /\ monitoringMutex = s
        /\ pc[t] = "start" /\ evals[t] > 0

(***************************************************************************)
(* C4: in every iteration of every service's loop the calls happen in the  *)
(* order Evaluate, Publish, Insert, Handle, each once per Result; Handle   *)
(* starts only after Insert of the same Result has returned.               *)
(***************************************************************************)
C4_CallOrder ==
    \A s \in Services :
        /\ \A i \in 1..Len(log[s]) :
            /\ log[s][i].call = CallOrder[((i - 1) % 4) + 1]
            /\ log[s][i].result.ts = ((i - 1) \div 4) + 1
            /\ i % 4 # 1 => log[s][i].result = log[s][i - 1].result
        /\ StatusOf(store, s).uptime.total = Len(Inserted(s))
        /\ pc[s] = "alert" =>
            /\ s \in DOMAIN store
            /\ store[s].results[Len(store[s].results)] = result[s]
            /\ Len(Inserted(s)) = Len(Handled(s)) + 1

\* a service has completed two whole iterations
C4_Witness ==
    \E s \in Services : Len(log[s]) >= 8 /\ pc[s] = "unlock"

(***************************************************************************)
(* C5: a "triggered" (resolved=false) notification is sent exactly on the  *)
(* Result that makes the failure streak reach failureThreshold while the   *)
(* alert is Idle, and on no other Result.                                  *)
(***************************************************************************)
C5_TriggerOnEdgeOnly ==
    [][\A s \in Services, a \in AlertNames :
        IF HandlesNow(s)
        THEN LET sent == NewlySent(s, a, "triggered")
             IN /\ IsPrefix(notifs[s][a], notifs'[s][a])
                /\ Len(sent) <= 1
                /\ Len(sent) = 1 <=>
                     /\ ~alerts[s][a].triggered
                     /\ Streak(HandledNext(s), FALSE) = FailureThreshold[a]
                /\ Len(sent) = 1 => sent[1].ts = result[s].ts
        ELSE notifs'[s][a] = notifs[s][a]]_vars

\* an alert stays Triggered through a failure beyond its threshold
C5_Witness ==
    \E s \in Services, a \in AlertNames :
        /\ Streak(Handled(s), FALSE) > FailureThreshold[a]
        /\ alerts[s][a].triggered
        /\ Len(notifs[s][a]) = 1

(***************************************************************************)
(* C6: a "resolved" (resolved=true) notification is sent exactly on the    *)
(* Result that makes the success streak reach successThreshold while the   *)
(* alert is Triggered, the alert is Idle afterwards, and the notifications *)
(* of one alert alternate triggered, resolved, starting with triggered.    *)
(***************************************************************************)
C6_ResolveOnEdgeOnly ==
    [][\A s \in Services, a \in AlertNames :
        IF HandlesNow(s)
        THEN LET sent == NewlySent(s, a, "resolved")
             IN /\ Len(sent) <= 1
                /\ Len(sent) = 1 <=>
                     /\ alerts[s][a].triggered
                     /\ Streak(HandledNext(s), TRUE) = SuccessThreshold[a]
                /\ Len(sent) = 1 => ~alerts'[s][a].triggered
                /\ \A i \in 1..Len(notifs'[s][a]) :
                     notifs'[s][a][i].message =
                         IF i % 2 = 1 THEN "triggered" ELSE "resolved"
        ELSE notifs'[s][a] = notifs[s][a]]_vars

\* an alert was triggered, resolved and triggered again
C6_Witness ==
    \E s \in Services, a \in AlertNames :
        /\ Len(notifs[s][a]) = 3
        /\ notifs[s][a][2].message = "resolved"
        /\ alerts[s][a].triggered

(***************************************************************************)
(* C7: a service's stored history never exceeds Capacity and holds the     *)
(* most recently inserted Results in insertion order, exactly Capacity of  *)
(* them once more than Capacity were inserted.                             *)
(***************************************************************************)
C7_BoundedHistory ==
    \A s \in Services :
        LET ins == Inserted(s)
            n == Len(ins)
            kept == StatusOf(store, s).results
        IN /\ Len(kept) <= Capacity
           /\ kept = SubSeq(ins, Max(1, n - Capacity + 1), n)
           /\ n > Capacity => Len(kept) = Capacity

\* more Results than Capacity were inserted for a service
C7_Witness ==
    \E s \in Services :
        /\ Len(Inserted(s)) > Capacity
        /\ s \in DOMAIN store
        /\ store[s].results[1].ts = Len(Inserted(s)) - Capacity + 1

(***************************************************************************)
(* C8: an Event is appended on an Insert exactly when the inserted Result  *)
(* differs in success from the Result inserted just before it for the same *)
(* service, so a run of identical outcomes appends at most one Event.      *)
(***************************************************************************)
Changes(rs) == {i \in 2..Len(rs) : rs[i].success # rs[i - 1].success}

C8_EventIffChange ==
    \A s \in Services :
        LET ins == Inserted(s)
            events == StatusOf(store, s).events
        IN /\ Len(events) = Cardinality(Changes(ins))
           /\ \A j \in 1..Len(events) :
                /\ events[j].ts \in Changes(ins)
                /\ events[j].kind =
                     (IF ins[events[j].ts].success THEN "healthy" ELSE "unhealthy")
                /\ j > 1 => events[j - 1].ts < events[j].ts

\* one change of outcome followed by a run of identical outcomes
C8_Witness ==
    \E s \in Services :
        /\ Len(Inserted(s)) >= 4
        /\ Cardinality(Changes(Inserted(s))) = 1
        /\ Len(StatusOf(store, s).events) = 1
        /\ 2 \in Changes(Inserted(s))

(***************************************************************************)
(* C10: no Result outcome stops a polling task: after a failed Result the  *)
(* task still inserts, handles, releases the mutex and sleeps, no task     *)
(* terminates, and every configured service is evaluated infinitely often. *)
(***************************************************************************)
LoopPositions ==
    {"unspawned", "start", "evaluating", "publish", "update", "alert",
     "unlock", "sleep"}

C10_NeverStops ==
    \A s \in Services :
        /\ [](pc[s] \in LoopPositions)
        /\ []<>(pc[s] = "evaluating")
        /\ (pc[s] = "publish" /\ ~result[s].success) ~> (pc[s] = "update")
        /\ (pc[s] = "update" /\ ~result[s].success) ~> (pc[s] = "alert")
        /\ (pc[s] = "alert" /\ ~result[s].success)
                ~> (pc[s] = "sleep" /\ monitoringMutex # s)
        /\ (pc[s] = "sleep" /\ ~result[s].success) ~> (pc[s] = "evaluating")

\* a task evaluates again after a failed Result while another task waits
C10_Witness ==
    \E s, t \in Services :
        /\ s # t
        /\ pc[s] = "evaluating" /\ ~result[s].success
        /\ pc[t] = "start"
        /\ ~cfg.DisableMonitoringLock

(***************************************************************************)
(* Helpers of the read-path properties.                                    *)
(***************************************************************************)
Started(h) == hpc[h] # "idle"

\* the request ran GetAllServiceStatusesWithResultPagination and json.Marshal
\* to completion
Computed(h) ==
    \/ hpc[h] \in {"marshalled", "plainSet"}
    \/ hpc[h] = "done" /\ ~lookups[h].hit /\ resp[h].status = 200

\* the cache.Get of one request ran while the other was between its own
\* cache.Get and its response
Concurrent(h1, h2) == h1 \in lookups[h2].with \/ h2 \in lookups[h1].with

(***************************************************************************)
(* C2: concurrent requests for one key that all start while no unexpired   *)
(* entry exists for it cause a single computation in total.                *)
(***************************************************************************)
C2_SingleComputation ==
    \A h1, h2 \in Requests :
        (/\ h1 # h2
         /\ Started(h1) /\ Started(h2)
         /\ KeyOf(h1) = KeyOf(h2)
         /\ Concurrent(h1, h2)
         /\ ~lookups[h1].hit /\ ~lookups[h2].hit)
        => ~(Computed(h1) /\ Computed(h2))

(***************************************************************************)
(* C3: concurrent requests for one key within one TTL window all receive   *)
(* byte-identical response bodies, whatever Inserts interleave with them.  *)
(***************************************************************************)
C3_IdenticalBodies ==
    \A h1, h2 \in Requests :
        (/\ h1 # h2
         /\ hpc[h1] = "done" /\ hpc[h2] = "done"
         /\ KeyOf(h1) = KeyOf(h2)
         /\ Concurrent(h1, h2)
         /\ lookups[h1].at - lookups[h2].at < cacheTTL
         /\ lookups[h2].at - lookups[h1].at < cacheTTL
         /\ resp[h1].status = 200 /\ resp[h2].status = 200)
        => resp[h1].body = resp[h2].body

(***************************************************************************)
(* C9: a body is served from the cache only if less than the TTL of 10s    *)
(* has elapsed since its entry was set; once 10s have elapsed since the    *)
(* last set of a key, the next request for it misses and recomputes from   *)
(* the ResultStore.                                                        *)
(***************************************************************************)
C9_ExpiryAfterTTL ==
    [][\A h \in Requests :
        /\ (hpc[h] = "idle" /\ hpc'[h] # "idle") =>
            LET key == KeyOf(h)'
                fresh == key \in DOMAIN cache /\ clock - cache[key].setAt < 10
            IN /\ fresh <=> hpc'[h] = "done"
               /\ fresh => resp'[h].body = cache[key].value
               /\ ~fresh <=> hpc'[h] = "miss"
               /\ ~fresh => key \notin DOMAIN cache'
        /\ (hpc[h] = "miss" /\ hpc'[h] = "marshalled") =>
            req'[h].data =
                [json |-> [k \in DOMAIN store |->
                    WithResultPagination(store[k], req[h].page, req[h].pageSize)]]
        /\ \A key \in DOMAIN cache' :
            (key \notin DOMAIN cache \/ cache'[key] # cache[key]) =>
                cache'[key].setAt = clock]_vars

\* a request found the entry of its key expired and answered from the store
C9_Witness ==
    \E h \in Requests :
        /\ hpc[h] = "done"
        /\ lookups[h].expired
        /\ lookups[h].at >= 10
        /\ resp[h].status = 200
        /\ \E k \in DOMAIN store : Len(store[k].results) > 0

(***************************************************************************)
(* C11: DeleteAllServiceStatusesNotInKeys(keys) leaves exactly the stored  *)
(* services whose key is in keys, each status unchanged, and returns the   *)
(* number of stored services whose key is not in keys.                     *)
(***************************************************************************)
C11_DeleteKeepsListedKeys ==
    lastCall.op = "delete" =>
        /\ DOMAIN store = {k \in DOMAIN lastCall.before : k \in lastCall.keys}
        /\ \A k \in DOMAIN store : store[k] = lastCall.before[k]
        /\ lastCall.ret =
             Cardinality({k \in DOMAIN lastCall.before : k \notin lastCall.keys})

\* {"g/a", "g/b"} stored with history, reconciled against ["g/a"]
C11_Witness ==
    /\ lastCall.op = "delete"
    /\ DOMAIN lastCall.before = {"g/a", "g/b"}
    /\ lastCall.keys = {"g/a"}
    /\ lastCall.ret = 1
    /\ DOMAIN store = {"g/a"}
    /\ Len(store["g/a"].events) > 0

(***************************************************************************)
(* C15: a paginated read with page >= 1 and pageSize >= 1 whose window lies *)
(* wholly past the stored Results returns the service's status with an     *)
(* empty Result slice and no error, and leaves the history unchanged.      *)
(***************************************************************************)
\* the window of the read starts past the Results stored for its key
PastTheEnd(call) ==
    /\ call.op = "read"
    /\ call.key \in DOMAIN call.before
    /\ call.page >= 1 /\ call.pageSize >= 1
    /\ (call.page - 1) * call.pageSize >= Len(call.before[call.key].results)

C15_EmptyPageNoError ==
    PastTheEnd(lastCall) =>
        /\ store = lastCall.before
        /\ lastCall.status # 404
        /\ lastCall.status = 500 <=> ~lastCall.marshalled
        /\ lastCall.marshalled =>
            /\ lastCall.status = 200
            /\ lastCall.body.serviceStatus.results = <<>>
            /\ lastCall.body.events = store[lastCall.key].events
            /\ lastCall.body.uptime = store[lastCall.key].uptime

\* page 1000 of size 10 of a service with stored Results
C15_Witness ==
    /\ PastTheEnd(lastCall)
    /\ lastCall.page = 1000 /\ lastCall.pageSize = 10
    /\ Len(store[lastCall.key].results) = Capacity
    /\ lastCall.status = 200

(***************************************************************************)
(* C12: for each value of the insecure flag every call of GetHTTPClient    *)
(* returns the same client, and at most one secure and one insecure client *)
(* are ever created, also when polling goroutines call it concurrently.    *)
(***************************************************************************)
C12_OneSharedClientPerFlag ==
    /\ \A flag \in BOOLEAN :
        Cardinality({c \in clients : c.insecure = flag}) <= 1
    /\ \A s, t \in Services :
        (/\ got[s].client # 0 /\ got[t].client # 0
         /\ got[s].insecure = got[t].insecure)
        => got[s].client = got[t].client

(***************************************************************************)
(* C13: when json.Marshal fails in serviceStatusesHandler only that request *)
(* gets the error (HTTP 500); the request creates, replaces or removes no  *)
(* cache entry that a lookup could return, and the store and the other     *)
(* requests are untouched.                                                 *)
(***************************************************************************)
\* the entries a cache.Get at the present time would return
Servable(c) == [k \in {x \in DOMAIN c : ~Expired(c[x], clock)} |-> c[k]]

C13_MarshalFailureIsLocal ==
    [][\A h \in Requests :
        /\ (hpc[h] = "idle" /\ hpc'[h] = "miss") =>
            /\ Servable(cache') = Servable(cache)
            /\ store' = store
        /\ (hpc[h] = "miss" /\ hpc'[h] = "done") =>
            /\ resp'[h].status = 500
            /\ cache' = cache
            /\ store' = store
            /\ \A o \in Requests \ {h} :
                hpc'[o] = hpc[o] /\ resp'[o] = resp[o] /\ req'[o] = req[o]]_vars

\* a request failed to marshal while the entries of its page were cached,
\* and another request was answered 200
C13_Witness ==
    \E h, o \in Requests :
        /\ hpc[h] = "done" /\ resp[h].status = 500
        /\ hpc[o] = "done" /\ resp[o].status = 200
        /\ DOMAIN cache # {}

(***************************************************************************)
(* C14: when the Notifier fails on a threshold crossing the loop goes on   *)
(* (mutex released before the sleep) and the notification is not retried   *)
(* on the following Results of the same streak: the Notifier is called for *)
(* an alert on threshold crossings only.                                   *)
(***************************************************************************)
\* every Result from the t-th on, the one being handled included, has the
\* outcome of the t-th
SameStreakSince(rs, t) == \A i \in t..Len(rs) : rs[i].success = rs[t].success

C14_NoRetryAfterNotifierError ==
    [][\A s \in Services :
        /\ pc'[s] \in LoopPositions
        /\ pc'[s] = "sleep" => monitoringMutex' # s
        /\ HandlesNow(s) =>
            /\ pc'[s] = "unlock"
            /\ \A a \in AlertNames :
                LET called == Len(notifs'[s][a]) > Len(notifs[s][a])
                    crossing ==
                        \/ /\ ~alerts[s][a].triggered
                           /\ Streak(HandledNext(s), FALSE) = FailureThreshold[a]
                        \/ /\ alerts[s][a].triggered
                           /\ Streak(HandledNext(s), TRUE) = SuccessThreshold[a]
                    before == notifs[s][a]
                IN /\ called <=> crossing
                   /\ (/\ before # <<>>
                       /\ before[Len(before)].ts \in notifyErrs[s][a]
                       /\ SameStreakSince(HandledNext(s), before[Len(before)].ts))
                      => ~called]_vars

\* the Notifier failed on a trigger, the failures went on without another
\* call, and the service is being evaluated again
C14_Witness ==
    \E s \in Services, a \in AlertNames :
        /\ Len(notifs[s][a]) = 1
        /\ notifs[s][a][1].ts \in notifyErrs[s][a]
        /\ Streak(Handled(s), FALSE) > FailureThreshold[a]
        /\ pc[s] = "evaluating"

(***************************************************************************)
(* C16: with the lock enabled a goroutine holds the mutex from before its  *)
(* EvaluateHealth call until HandleAlerting has returned and never while   *)
(* it sleeps; while one service is between its Evaluate and the end of its *)
(* Handle no other service is evaluated, inserted or handled.              *)
(***************************************************************************)
Section == {"evaluating", "publish", "update", "alert"}

C16_LockSpansEvaluateToHandle ==
    /\ [](~cfg.DisableMonitoringLock =>
            \A s \in Services :
                /\ pc[s] \in Section \cup {"unlock"} => monitoringMutex = s
                /\ pc[s] \in {"unspawned", "start", "sleep"} =>
                       monitoringMutex # s)
    /\ [][~cfg.DisableMonitoringLock =>
            \A s \in Services : pc[s] \in Section =>
                \A o \in Services \ {s} :
                    /\ pc'[o] \notin Section
                    /\ result'[o] = result[o]
                    /\ StatusOf(store', o) = StatusOf(store, o)
                    /\ log'[o] = log[o]
                    /\ alerts'[o] = alerts[o]
                    /\ notifs'[o] = notifs[o]]_vars

\* one goroutine sleeps without the mutex after a whole iteration while
\* another one is inside HandleAlerting with it
C16_Witness ==
    /\ ~cfg.DisableMonitoringLock
    /\ \E s, o \in Services :
        /\ pc[s] = "sleep" /\ Handled(s) # <<>> /\ monitoringMutex # s
        /\ pc[o] = "alert" /\ monitoringMutex = o

(***************************************************************************)
(* C17: with the lock disabled no goroutine takes or waits for the mutex:  *)
(* every step of a loop is enabled whatever the others do, so two services *)
(* can be inside EvaluateHealth at once and one that stays there does not  *)
(* keep another from being evaluated.                                      *)
(***************************************************************************)
C17_DisabledLockNeverBlocks ==
    cfg.DisableMonitoringLock =>
        /\ monitoringMutex = Free
        /\ \A s \in Services :
            /\ (pc[s] = "start" /\ evals[s] < MaxEvals) => ENABLED MonitorLock(s)
            /\ pc[s] = "evaluating" => ENABLED MonitorEvaluate(s)
            /\ pc[s] = "publish" => ENABLED MonitorPublish(s)
            /\ pc[s] = "update" => ENABLED MonitorUpdate(s)
            /\ pc[s] = "alert" => ENABLED MonitorAlert(s)
            /\ pc[s] = "unlock" => ENABLED MonitorUnlock(s)
            /\ pc[s] = "sleep" => ENABLED MonitorSleep(s)

\* one service is still inside its first EvaluateHealth while another one,
\* handled twice already, is inside EvaluateHealth again
C17_Witness ==
    /\ cfg.DisableMonitoringLock
    /\ \E s, o \in Services :
        /\ pc[s] = "evaluating" /\ Handled(s) = <<>>
        /\ pc[o] = "evaluating" /\ Len(Handled(o)) >= 2

(***************************************************************************)
(* C19: with metrics enabled and concurrent PublishMetricsForService calls *)
(* a gauge is created at most once per key, every call increments the      *)
(* gauge stored under its key and no call creates a second gauge for a key *)
(* that has one; with metrics disabled no gauge is ever created.           *)
(***************************************************************************)
RECURSIVE CallsOf(_)
CallsOf(ps) ==
    IF ps = {} THEN 0
    ELSE LET p == CHOOSE x \in ps : TRUE
         IN gauge[p].calls + CallsOf(ps \ {p})

SameKey(k) == {p \in Publishers : GaugeKey(p) = k}

C19_OneGaugePerKey ==
    /\ ~cfg.Metrics => registered = <<>> /\ gauges = <<>>
    /\ \A k \in DOMAIN registered :
        /\ Len(registered[k]) = 1
        /\ registered[k][1].incs = CallsOf(SameKey(k))
        /\ (k \in DOMAIN gauges /\ gauges[k] = registered[k][1].incs)
             \/ (k \notin DOMAIN gauges /\ registered[k][1].incs = 0)
    /\ \A p \in Publishers :
        /\ mpc[p] \in {"unlock", "inc"} =>
            /\ GaugeKey(p) \in DOMAIN registered
            /\ gauge[p].ref = <<GaugeKey(p), Len(registered[GaugeKey(p)])>>
        /\ gauge[p].calls > 0 /\ cfg.Metrics => GaugeKey(p) \in DOMAIN registered

\* two callers with one key, both back from two calls that interleaved with
\* those of a caller with another key
C19_Witness ==
    /\ cfg.Metrics
    /\ \E p, q, o \in Publishers :
        /\ p # q /\ GaugeKey(p) = GaugeKey(q) /\ GaugeKey(o) # GaugeKey(p)
        /\ gauge[p].calls = 2 /\ gauge[q].calls = 2 /\ gauge[o].calls >= 1
        /\ Len(registered[GaugeKey(p)]) = 1
        /\ registered[GaugeKey(p)][1].incs >= 4

(***************************************************************************)
(* C18: for every (page, pageSize), whenever the plain and the gzipped     *)
(* entry both exist, the gzipped one is the compression of the bytes held  *)
(* in the plain one, whatever handlers and Inserts interleave.             *)
(***************************************************************************)
C18_PlainAndGzippedAgree ==
    \A page \in Pages, pageSize \in PageSizes :
        LET plain == CacheKey(page, pageSize, FALSE)
            gzipped == CacheKey(page, pageSize, TRUE)
        IN (CacheHas(cache, plain, clock) /\ CacheHas(cache, gzipped, clock))
           => cache[gzipped].value = Gzip(cache[plain].value)

(***************************************************************************)
(* C20: a response of serviceStatusesHandler carries Content-Encoding:     *)
(* gzip iff its body is gzip-compressed data, on a hit, on a miss and on a *)
(* marshal failure.                                                        *)
(***************************************************************************)
IsGzipData(body) == "gzip" \in DOMAIN body

C20_EncodingHeaderMatchesBody ==
    \A h \in Requests :
        hpc[h] = "done" =>
            (resp[h].encoding = "gzip" <=> IsGzipData(resp[h].body))

TypeOK ==
    /\ spawned \in 0..Len(ServiceList)
    /\ \A s \in Services : evals[s] \in 0..MaxEvals
    /\ monitoringMutex \in {Free} \cup Services
====
